---- MODULE Spec2Model ----
(***************************************************************************)
(* State-machine model of SecureDoc's PDF merger (src/main.py):            *)
(*   - DraggableGridWidget: the QGridLayout item list doubles as the       *)
(*     ordered collection of thumbnails, plus one placeholder;             *)
(*   - PDFThumbnailWidget: delete button and drag initiation;              *)
(*   - PDFMergerLogic / PDFMergerApp: the merge accumulator and dialogs.   *)
(*                                                                         *)
(* Qt behaviour the handlers rely on, as modelled here:                    *)
(*   - QGridLayout keeps its items in a list in insertion order; itemAt(i) *)
(*     and count() read that list. addWidget on a widget that is already   *)
(*     in the layout takes it out of the list and appends it again.        *)
(*   - rowCount/columnCount only grow; cellRect outside them is QRect().   *)
(*   - QWidget.setParent(None) takes the widget out of its parent's layout *)
(*     (ChildRemoved); it does not touch the cells of the other items.     *)
(*   - the layout gives every widget the top-left corner of its cell; the  *)
(*     cells are laid out unstretched (fixed 120x140 widgets, spacing 10). *)
(*   - a drag-move event is delivered before every drop, at the position   *)
(*     of the drop.                                                        *)
(*   - an exception escaping a PySide6 event handler is reported and the   *)
(*     event loop goes on; what the handler did before it stays done.      *)
(***************************************************************************)
EXTENDS Integers, Sequences, FiniteSets, TLC

\* ------------------------------------------------------------------ bounds
\* most thumbnails in the grid at one time
MaxItems == 3

\* most pages the merge accumulator holds before the model stops merging
MaxAccPages == 5

\* how many of the names Merged_Output.pdf, Merged_Output_001.pdf, ... may
\* be on disk when the application starts
MaxExisting == 3

\* longest output name typed character by character
MaxNameLen == 5

\* ------------------------------------------------------- program constants
\* columns per row: the literal 3 of every divmod(..., 3) and row * 3 + col
Columns == 3
cell_width == 120
cell_height == 140
\* self.layout.setSpacing(10)
spacing == 10
\* QGridLayout(self): the style's default contents margin
ContentsMargin == 11

\* the placeholder widget (self.placeholder); thumbnails are 1..MaxItems
Placeholder == 0
WidgetIds == 1..MaxItems

\* files the user can pick; convert_from_path fails on the unrenderable ones
Renderable == {"a.pdf", "b.pdf"}
Unrenderable == {"bad.pdf"}
Files == Renderable \cup Unrenderable
\* what the file dialog returns for a selection of several files, or none
FileSelections == {<<>>} \cup (Files \X Files)

\* the page sequence of each file, as the merge collaborator reads it
Pages(path) == IF path = "a.pdf" THEN <<"a1", "a2">> ELSE <<path>>

\* what the user can type into the output-name field, as character sequences
DotPdf == <<".", "p", "d", "f">>
OutputTexts == {<<>>, <<"r">>, <<"r">> \o DotPdf}

\* the characters the user types one by one: those of "r.pdf"
NameChars == {"r", ".", "p", "d", "f"}

\* pointer positions of drag-move and drop events, in grid-widget pixels
PointerXs == {119, 120, 250, 360}
PointerYs == {139, 140, 290}
PointerPositions == PointerXs \X PointerYs

\* QRect as [x, y, w, h]; QRect() is the null rectangle
NullRect == [x |-> 0, y |-> 0, w |-> 0, h |-> 0]
topLeft(rect) == <<rect.x, rect.y>>

NoDrag == [active |-> FALSE, moved |-> FALSE, widget |-> -1,
           source |-> <<0, 0>>, pointer |-> <<0, 0>>]

VARIABLES
    layout,          \* QGridLayout: [items: Seq([w, path, row, col]), rr, cc]
    highlight_rect,  \* DraggableGridWidget.highlight_rect
    drag,            \* the QDrag in progress: payload and last pointer position
    merger,          \* pdf_merger_logic.merger: [pages, closed]
    output_filename, \* the text of the output-name QLineEdit
    auto_name_enabled, \* PDFMergerApp.auto_name_enabled
    disk,            \* the files written so far: destination -> pages
    event            \* the handler that ran last, and how it ended

gridVars == <<layout, highlight_rect, drag>>
appVars == <<merger, output_filename, auto_name_enabled, disk>>

\* --------------------------------------------------------- Python helpers
Max(a, b) == IF a >= b THEN a ELSE b

\* divmod(n, 3) for n >= 0
divmod(n) == <<n \div Columns, n % Columns>>

\* ------------------------------------------------------------ QGridLayout
EmptyLayout == [items |-> <<>>, rr |-> 0, cc |-> 0]

count(G) == Len(G.items)

InLayout(G, w) == \E i \in 1..Len(G.items) : G.items[i].w = w

\* QLayout.removeWidget / the ChildRemoved path: drop the widget's item
removeWidget(G, w) ==
    LET notW(it) == it.w # w
    IN  [G EXCEPT !.items = SelectSeq(G.items, notW)]

\* QGridLayout.addWidget(widget, row, col)
addWidget(G, w, path, row, col) ==
    LET G1 == removeWidget(G, w)
    IN  [items |-> Append(G1.items, [w |-> w, path |-> path, row |-> row, col |-> col]),
         rr |-> Max(G1.rr, row + 1),
         cc |-> Max(G1.cc, col + 1)]

\* QGridLayout.cellRect(row, col)
cellRect(G, row, col) ==
    IF row < 0 \/ row >= G.rr \/ col < 0 \/ col >= G.cc
    THEN NullRect
    ELSE [x |-> ContentsMargin + col * (cell_width + spacing),
          y |-> ContentsMargin + row * (cell_height + spacing),
          w |-> cell_width, h |-> cell_height]

\* QWidget.pos() of the widget of a layout item: the corner of its cell
pos(G, it) == topLeft(cellRect(G, it.row, it.col))

\* ------------------------------------------------- DraggableGridWidget
\* the comprehension of swap_widgets and update_grid: the widgets in item
\* order, the placeholder left out
items_of(G) ==
    LET real(it) == it.w # Placeholder
    IN  SelectSeq(G.items, real)

RECURSIVE place_items(_, _, _)
\* for index, widget in enumerate(items): addWidget(widget, *divmod(index, 3))
place_items(G, items, k) ==
    IF k > Len(items) THEN G
    ELSE place_items(
            addWidget(G, items[k].w, items[k].path, divmod(k - 1)[1], divmod(k - 1)[2]),
            items, k + 1)

RECURSIVE remove_all(_, _)
\* for i in reversed(range(count)): removeWidget(itemAt(i).widget())
remove_all(G, i) ==
    IF i < 1 THEN G
    ELSE remove_all(removeWidget(G, G.items[i].w), i - 1)

add_placeholder(G) ==
    addWidget(G, Placeholder, "", divmod(count(G))[1], divmod(count(G))[2])

\* update_grid that walks the collected items backwards
update_grid_reversed(G) ==
    LET items == items_of(G)
        rev == [k \in 1..Len(items) |-> items[Len(items) + 1 - k]]
        G1 == remove_all(G, count(G))
        G2 == place_items(G1, rev, 1)
    IN  addWidget(G2, Placeholder, "", divmod(Len(items))[1], divmod(Len(items))[2])

\* update_grid that moves the placeholder only and leaves the items where
\* they are
update_grid_placeholder_only(G) ==
    LET items == items_of(G)
    IN  addWidget(G, Placeholder, "", divmod(Len(items))[1], divmod(Len(items))[2])

update_grid(G) ==
    LET items == items_of(G)
        G1 == remove_all(G, count(G))
        G2 == place_items(G1, items, 1)
    IN  addWidget(G2, Placeholder, "", divmod(Len(items))[1], divmod(Len(items))[2])

get_pdf_paths(G) ==
    LET items == items_of(G)
    IN  [k \in 1..Len(items) |-> items[k].path]

\* get_grid_position dividing x by the cell height
get_grid_position_wrong_divisor(p) == <<p[2] \div cell_height, p[1] \div cell_height>>

get_grid_position(p) == <<p[2] \div cell_height, p[1] \div cell_width>>

can_place(G, hl) ==
    LET rc == divmod(count(G) - 1)
    IN  topLeft(hl) # topLeft(cellRect(G, rc[1], rc[2]))

\* items.index(source_widget): 0-based, -1 standing for ValueError
index_of(items, w) ==
    IF \E k \in 1..Len(items) : items[k].w = w
    THEN (CHOOSE k \in 1..Len(items) :
            items[k].w = w /\ \A j \in 1..(k - 1) : items[j].w # w) - 1
    ELSE -1

\* swap_widgets raises (ValueError from index, IndexError from items[...])
\* before it touches the layout
swap_raises(G, source_widget, target_index) ==
    \/ index_of(items_of(G), source_widget) < 0
    \/ target_index >= Len(items_of(G))

swap_widgets(G, source_widget, target_index) ==
    LET items == items_of(G)
        si == index_of(items, source_widget) + 1
        ti == target_index + 1
        swapped == [k \in 1..Len(items) |->
                        IF k = si THEN items[ti]
                        ELSE IF k = ti THEN items[si]
                        ELSE items[k]]
    IN  place_items(G, swapped, 1)

\* the loop of dropEvent that finds the source widget: the first item whose
\* widget is at the position of the payload; -1 standing for None
find_source(G, payload) ==
    IF \E i \in 1..count(G) : pos(G, G.items[i]) = payload
    THEN LET i == CHOOSE i \in 1..count(G) :
                    /\ pos(G, G.items[i]) = payload
                    /\ \A j \in 1..(i - 1) : pos(G, G.items[j]) # payload
         IN  G.items[i].w
    ELSE -1

\* --------------------------------------------------------- PDFMergerLogic
\* PyPDF2.PdfMerger as merge_pdfs uses it: append(path) reads the file and
\* adds its pages, or raises; write(dest) writes the pages, or raises when
\* dest cannot be written or close() was called before; close() drops the
\* pages and leaves the merger closed for good.
PdfMerger == [pages |-> <<>>, closed |-> FALSE]

RECURSIVE append_all(_, _, _, _)
\* for pdf in pdf_files: self.merger.append(pdf); stops at the first file
\* that cannot be read. failed = 0 when every append went through.
append_all(M, pdf_files, k, unreadable) ==
    IF k > Len(pdf_files) THEN [merger |-> M, failed |-> 0]
    ELSE IF pdf_files[k] \in unreadable THEN [merger |-> M, failed |-> k]
    ELSE append_all([M EXCEPT !.pages = @ \o Pages(pdf_files[k])], pdf_files, k + 1, unreadable)

\* PDFMergerLogic.merge_pdfs(pdf_files, output_file): the merger and the
\* disk afterwards, the (success, message) pair it returns
merge_pdfs_logic(M, D, pdf_files, output_file, unreadable, writable) ==
    LET app == append_all(M, pdf_files, 1, unreadable)
        M1 == app.merger
    IN  IF app.failed # 0
        THEN [merger |-> M1, disk |-> D, success |-> FALSE,
              message |-> <<"cannot read", pdf_files[app.failed]>>]
        ELSE IF M1.closed
        THEN [merger |-> M1, disk |-> D, success |-> FALSE,
              message |-> <<"writer closed">>]
        ELSE IF ~writable
        THEN [merger |-> M1, disk |-> D, success |-> FALSE,
              message |-> <<"cannot write", output_file>>]
        ELSE [merger |-> [pages |-> <<>>, closed |-> TRUE],
              disk |-> [n \in DOMAIN D \cup {output_file} |->
                            IF n = output_file THEN M1.pages ELSE D[n]],
              success |-> TRUE,
              message |-> <<"Merged PDF saved as", output_file>>]

\* str.endswith
endswith(s, suffix) ==
    /\ Len(s) >= Len(suffix)
    /\ SubSeq(s, Len(s) - Len(suffix) + 1, Len(s)) = suffix

\* normalisation that appends the suffix whatever the name ends with
normalize_always_appends(output_file) == output_file \o DotPdf

\* if not output_file.endswith('.pdf'): output_file += '.pdf'
normalize(output_file) ==
    IF ~endswith(output_file, DotPdf) THEN output_file \o DotPdf ELSE output_file

\* ------------------------------------------------------- auto-naming
DigitChars == <<"0", "1", "2", "3", "4", "5", "6", "7", "8", "9">>

RECURSIVE str_int(_)
\* str(n) for n >= 0, as characters
str_int(n) ==
    IF n < 10 THEN <<DigitChars[n + 1]>>
    ELSE str_int(n \div 10) \o <<DigitChars[(n % 10) + 1]>>

RECURSIVE zero_pad(_, _)
\* the format 0<width>d: zeros in front up to the width, no cut beyond it
zero_pad(digits, width) ==
    IF Len(digits) >= width THEN digits ELSE zero_pad(<<"0">> \o digits, width)

base_name == <<"Merged_Output">>

\* f"{base_name}_{counter:03d}{extension}"
numbered_name(counter) ==
    base_name \o <<"_">> \o zero_pad(str_int(counter), 3) \o DotPdf

RECURSIVE name_loop_from_zero(_, _, _)
name_loop_from_zero(existing, output_file, counter) ==
    IF output_file \in existing
    THEN name_loop_from_zero(existing, numbered_name(counter), counter + 1)
    ELSE output_file

\* generate_output_filename whose counter starts at 0
generate_output_filename_from_zero(existing) ==
    name_loop_from_zero(existing, base_name \o DotPdf, 0)

RECURSIVE name_loop(_, _, _)
\* while os.path.exists(output_file): next numbered name
name_loop(existing, output_file, counter) ==
    IF output_file \in existing
    THEN name_loop(existing, numbered_name(counter), counter + 1)
    ELSE output_file

\* PDFMergerApp.generate_output_filename, existing the names on disk
generate_output_filename(existing) ==
    name_loop(existing, base_name \o DotPdf, 1)

\* the auto-names that may be on disk before the application starts
PreExisting ==
    {base_name \o DotPdf} \cup {numbered_name(k) : k \in 1..(MaxExisting - 1)}

RECURSIVE total_pages(_, _)
total_pages(pdf_files, k) ==
    IF k > Len(pdf_files) THEN 0
    ELSE Len(Pages(pdf_files[k])) + total_pages(pdf_files, k + 1)

\* ------------------------------------------------------------------- Init
Init ==
    /\ layout = add_placeholder(EmptyLayout)
    /\ highlight_rect = NullRect
    /\ drag = NoDrag
    /\ merger = PdfMerger
    /\ output_filename = <<>>
    /\ auto_name_enabled = FALSE
    /\ disk = <<>>
    /\ event = [name |-> "init", raised |-> FALSE]

\* ---------------------------------------------------------------- actions
\* a fresh PDFThumbnailWidget object
NewWidget(G) == CHOOSE w \in WidgetIds : ~InLayout(G, w) /\ \A v \in 1..(w - 1) : InLayout(G, v)

\* add_pdf that forgets update_grid after addWidget
add_pdf_layout_no_reflow(G, pdf_path) ==
    IF pdf_path \in Renderable
    THEN LET rc == divmod(count(G) - 1)
         IN  addWidget(G, NewWidget(G), pdf_path, rc[1], rc[2])
    ELSE G

\* the layout after add_pdf(pdf_path): the except branch leaves it alone
add_pdf_layout(G, pdf_path) ==
    IF pdf_path \in Renderable
    THEN LET rc == divmod(count(G) - 1)
         IN  update_grid(addWidget(G, NewWidget(G), pdf_path, rc[1], rc[2]))
    ELSE G

\* select_files without add_pdf's try/except: the first file that does not
\* render ends the loop
RECURSIVE select_files_stops_at_failure(_, _, _)
select_files_stops_at_failure(G, files, k) ==
    IF k > Len(files) \/ files[k] \notin Renderable THEN G
    ELSE select_files_stops_at_failure(add_pdf_layout(G, files[k]), files, k + 1)

RECURSIVE select_files_layout(_, _, _)
\* for file in files: self.file_list.add_pdf(file)
select_files_layout(G, files, k) ==
    IF k > Len(files) THEN G
    ELSE select_files_layout(add_pdf_layout(G, files[k]), files, k + 1)

\* DraggableGridWidget.add_pdf(pdf_path): one file picked
add_pdf(pdf_path) ==
    /\ ~drag.active
    /\ Len(items_of(layout)) < MaxItems
    /\ layout' = add_pdf_layout(layout, pdf_path)
    /\ event' = [name |-> "add_pdf", raised |-> FALSE,
                 pdf_path |-> pdf_path, rendered |-> pdf_path \in Renderable]
    /\ UNCHANGED <<highlight_rect, drag, appVars>>

\* PDFMergerApp.toggle_auto_name(state), from the checkbox's stateChanged:
\* the state is the new one, so it differs from the one before. The
\* comparison state == Qt.Checked is taken to hold for the checked state.
toggle_auto_name(state) ==
    /\ ~drag.active
    /\ (state = "Checked") # auto_name_enabled
    /\ auto_name_enabled' = (state = "Checked")
    /\ output_filename' = IF state = "Checked"
                          THEN generate_output_filename(DOMAIN disk)
                          ELSE <<>>
    /\ event' = [name |-> "toggle_auto_name", raised |-> FALSE, state |-> state]
    /\ UNCHANGED <<gridVars, merger, disk>>

\* PDFMergerApp.select_files: the dialog returns files (none when it is
\* cancelled)
select_files(files) ==
    /\ ~drag.active
    /\ Len(items_of(layout)) + Len(files) <= MaxItems
    /\ layout' = select_files_layout(layout, files, 1)
    /\ event' = [name |-> "select_files", raised |-> FALSE, files |-> files]
    /\ UNCHANGED <<highlight_rect, drag, appVars>>

\* delete_self that takes the layout's first item out instead of its own
delete_self_takes_first(w) ==
    /\ ~drag.active
    /\ w # Placeholder /\ InLayout(layout, w)
    /\ layout' = removeWidget(layout, layout.items[1].w)
    /\ event' = [name |-> "delete_self", raised |-> FALSE, widget |-> w]
    /\ UNCHANGED <<highlight_rect, drag, appVars>>

\* PDFThumbnailWidget.delete_self of the thumbnail w
delete_self(w) ==
    /\ ~drag.active
    /\ w # Placeholder /\ InLayout(layout, w)
    /\ layout' = removeWidget(layout, w)
    /\ event' = [name |-> "delete_self", raised |-> FALSE, widget |-> w]
    /\ UNCHANGED <<highlight_rect, drag, appVars>>

RECURSIVE clear_loop(_, _)
clear_loop(G, i) ==
    IF i < 1 THEN G
    ELSE IF G.items[i].w # Placeholder
         THEN clear_loop(removeWidget(G, G.items[i].w), i - 1)
         ELSE clear_loop(G, i - 1)

\* DraggableGridWidget.clear_all_pdfs, from the Clear All button
clear_all_pdfs ==
    /\ ~drag.active
    /\ layout' = clear_loop(layout, count(layout))
    /\ event' = [name |-> "clear_all_pdfs", raised |-> FALSE]
    /\ UNCHANGED <<highlight_rect, drag, appVars>>

\* PDFThumbnailWidget.mousePressEvent on the thumbnail w: the drag starts
mousePressEvent(w) ==
    /\ ~drag.active
    /\ \E i \in 1..count(layout) :
          /\ layout.items[i].w = w
          /\ w # Placeholder
          /\ drag' = [active |-> TRUE, moved |-> FALSE, widget |-> w,
                      source |-> pos(layout, layout.items[i]), pointer |-> <<0, 0>>]
    /\ event' = [name |-> "mousePressEvent", raised |-> FALSE]
    /\ UNCHANGED <<layout, highlight_rect, appVars>>

\* DraggableGridWidget.dragMoveEvent with the pointer at p
dragMoveEvent(p) ==
    /\ drag.active
    /\ LET rc == get_grid_position(p)
       IN  highlight_rect' = cellRect(layout, rc[1], rc[2])
    /\ drag' = [drag EXCEPT !.moved = TRUE, !.pointer = p]
    /\ event' = [name |-> "dragMoveEvent", raised |-> FALSE]
    /\ UNCHANGED <<layout, appVars>>

\* the record of a drop: the payload and the pointer it came with, the
\* thumbnail that was dragged and the widget the lookup found
dropped(raised) ==
    [name |-> "dropEvent", raised |-> raised, source |-> drag.source, pointer |-> drag.pointer,
     dragged |-> drag.widget, found |-> find_source(layout, drag.source)]

\* DraggableGridWidget.dropEvent, the pointer where the last drag-move left it
dropEvent ==
    /\ drag.active /\ drag.moved
    /\ LET source_widget == find_source(layout, drag.source)
           rc == get_grid_position(drag.pointer)
           target_index == rc[1] * Columns + rc[2]
       IN  IF source_widget # -1 /\ can_place(layout, highlight_rect)
           THEN IF swap_raises(layout, source_widget, target_index)
                THEN /\ event' = dropped(TRUE)
                     /\ UNCHANGED <<layout, highlight_rect>>
                ELSE /\ layout' = update_grid(swap_widgets(layout, source_widget, target_index))
                     /\ highlight_rect' = NullRect
                     /\ event' = dropped(FALSE)
           ELSE /\ event' = dropped(FALSE)
                /\ UNCHANGED <<layout, highlight_rect>>
    /\ drag' = NoDrag
    /\ UNCHANGED appVars

\* drag.exec returns without a drop on the grid (released elsewhere, Esc)
dragCancelled ==
    /\ drag.active
    /\ drag' = NoDrag
    /\ event' = [name |-> "dragCancelled", raised |-> FALSE]
    /\ UNCHANGED <<layout, highlight_rect, appVars>>

\* the user types into the output-name field; toggle_auto_name disables the
\* field while auto-naming is on
edit_output_filename(text) ==
    /\ ~drag.active
    /\ ~auto_name_enabled
    /\ output_filename' = text
    /\ event' = [name |-> "edit_output_filename", raised |-> FALSE]
    /\ UNCHANGED <<gridVars, merger, auto_name_enabled, disk>>

\* the user types one more character at the end of the output-name field
type_character(c) ==
    /\ ~drag.active
    /\ ~auto_name_enabled
    /\ Len(output_filename) < MaxNameLen
    /\ output_filename' = Append(output_filename, c)
    /\ event' = [name |-> "type_character", raised |-> FALSE]
    /\ UNCHANGED <<gridVars, merger, auto_name_enabled, disk>>

\* merge_pdfs without the check of the output name
merge_pdfs_no_name_check(unreadable, writable) ==
    /\ ~drag.active
    /\ Len(merger.pages) + total_pages(get_pdf_paths(layout), 1) <= MaxAccPages
    /\ LET pdf_files == get_pdf_paths(layout)
           output_file == output_filename
       IN  IF pdf_files = <<>>
           THEN /\ event' = [name |-> "merge_pdfs", raised |-> FALSE, called |-> FALSE,
                             dialog |-> "warning: No PDF files selected.",
                             folder_opened |-> FALSE]
                /\ UNCHANGED <<merger, disk>>
           ELSE LET r == merge_pdfs_logic(merger, disk, pdf_files, normalize(output_file),
                                          unreadable, writable)
                IN  /\ merger' = r.merger
                    /\ disk' = r.disk
                    /\ event' = [name |-> "merge_pdfs", raised |-> FALSE, called |-> TRUE,
                                 output_file |-> normalize(output_file),
                                 unreadable |-> unreadable, writable |-> writable,
                                 success |-> r.success, message |-> r.message,
                                 dialog |-> IF r.success THEN "information" ELSE "critical",
                                 folder_opened |-> r.success]
    /\ UNCHANGED <<gridVars, output_filename, auto_name_enabled>>

\* PDFMergerApp.merge_pdfs, from the Merge button; the files in unreadable
\* cannot be read now, and writable tells whether the destination can be
\* written
merge_pdfs(unreadable, writable) ==
    /\ ~drag.active
    /\ Len(merger.pages) + total_pages(get_pdf_paths(layout), 1) <= MaxAccPages
    /\ LET pdf_files == get_pdf_paths(layout)
           output_file == output_filename
       IN  IF pdf_files = <<>>
           THEN /\ event' = [name |-> "merge_pdfs", raised |-> FALSE, called |-> FALSE,
                             dialog |-> "warning: No PDF files selected.",
                             folder_opened |-> FALSE]
                /\ UNCHANGED <<merger, disk>>
           ELSE IF output_file = <<>>
           THEN /\ event' = [name |-> "merge_pdfs", raised |-> FALSE, called |-> FALSE,
                             dialog |-> "warning: Output file name not specified.",
                             folder_opened |-> FALSE]
                /\ UNCHANGED <<merger, disk>>
           ELSE LET r == merge_pdfs_logic(merger, disk, pdf_files, normalize(output_file),
                                          unreadable, writable)
                IN  /\ merger' = r.merger
                    /\ disk' = r.disk
                    /\ event' = [name |-> "merge_pdfs", raised |-> FALSE, called |-> TRUE,
                                 output_file |-> normalize(output_file),
                                 unreadable |-> unreadable, writable |-> writable,
                                 success |-> r.success, message |-> r.message,
                                 dialog |-> IF r.success THEN "information" ELSE "critical",
                                 folder_opened |-> r.success]
    /\ UNCHANGED <<gridVars, output_filename, auto_name_enabled>>

vars == <<layout, highlight_rect, drag, merger, output_filename, auto_name_enabled, disk, event>>

Next ==
    \/ \E f \in Files : add_pdf(f)
    \/ \E files \in FileSelections : select_files(files)
    \/ \E w \in WidgetIds : delete_self(w)
    \/ clear_all_pdfs
    \/ \E w \in WidgetIds : mousePressEvent(w)
    \/ \E p \in PointerPositions : dragMoveEvent(p)
    \/ dropEvent
    \/ dragCancelled

Spec == Init /\ [][Next]_vars

\* The merge side of the application: the grid is filled and emptied, the
\* output name is typed and Merge is pressed. Removals and drags are left
\* out: every list of files they produce is also produced by adding the
\* files in that order to an empty grid.
NextMerge ==
    \/ \E f \in Files : add_pdf(f)
    \/ clear_all_pdfs
    \/ \E text \in OutputTexts : edit_output_filename(text)
    \/ \E unreadable \in SUBSET Renderable, writable \in BOOLEAN :
            merge_pdfs(unreadable, writable)

SpecMerge == Init /\ [][NextMerge]_vars

\* The naming side: the application starts in a directory that holds some
\* of the auto-names already; one file is added, the checkbox is toggled,
\* a name is typed, Merge is pressed.
InitName ==
    /\ layout = add_placeholder(EmptyLayout)
    /\ highlight_rect = NullRect
    /\ drag = NoDrag
    /\ merger = PdfMerger
    /\ output_filename = <<>>
    /\ auto_name_enabled = FALSE
    /\ \E S \in SUBSET PreExisting : disk = [n \in S |-> <<"old">>]
    /\ event = [name |-> "init", raised |-> FALSE]

NextName ==
    \/ add_pdf("a.pdf")
    \/ \E state \in {"Unchecked", "Checked"} : toggle_auto_name(state)
    \/ \E text \in OutputTexts : edit_output_filename(text)
    \/ \E unreadable \in SUBSET {"a.pdf"}, writable \in BOOLEAN :
            merge_pdfs(unreadable, writable)

SpecName == InitName /\ [][NextName]_vars

\* The output name alone: a file is added, a name of up to MaxNameLen
\* characters is typed character by character or the field is emptied, and
\* Merge is pressed with a destination that cannot be written, so that
\* every name meets the same disk.
NextText ==
    \/ add_pdf("a.pdf")
    \/ \E c \in NameChars : type_character(c)
    \/ edit_output_filename(<<>>)
    \/ \E unreadable \in SUBSET {"a.pdf"} : merge_pdfs(unreadable, FALSE)

SpecText == Init /\ [][NextText]_vars

\* ================================================================== claims
\* the linear index row*3 + col of the cell a layout item occupies
LinearIndex(it) == it.row * Columns + it.col

\* the thumbnails in layout order, as widget identities
Widgets(G) == [k \in 1..Len(items_of(G)) |-> items_of(G)[k].w]

\* the layout item of the placeholder
PlaceholderItem(G) == CHOOSE it \in {G.items[i] : i \in 1..count(G)} : it.w = Placeholder

\* the pixel p lies in the cell (row, col) of the 120x140 grid
InCell(p, row, col) ==
    /\ col * cell_width <= p[1] /\ p[1] < (col + 1) * cell_width
    /\ row * cell_height <= p[2] /\ p[2] < (row + 1) * cell_height

\* the pixel p lies in the cell of linear index j
InCellOfIndex(p, j) == InCell(p, j \div Columns, j % Columns)

\* s with the positions i and j (from 1) exchanged
Exchanged(s, i, j) ==
    [k \in 1..Len(s) |-> IF k = i THEN s[j] ELSE IF k = j THEN s[i] ELSE s[k]]

\* s without its k-th element
Without(s, k) == [i \in 1..(Len(s) - 1) |-> IF i < k THEN s[i] ELSE s[i + 1]]

\* C1: the grid starts empty, and every add_pdf whose thumbnail renders
\* puts its path at the end of get_pdf_paths and changes nothing before it;
\* so after adds alone get_pdf_paths is the added paths in the order added,
\* the placeholder not among them.
C1_AddKeepsOrder ==
    /\ get_pdf_paths(layout) = <<>>
    /\ [][(event'.name = "add_pdf" /\ event'.rendered)
            => /\ get_pdf_paths(layout') = Append(get_pdf_paths(layout), event'.pdf_path)
               /\ Len(Widgets(layout')) = Len(Widgets(layout)) + 1
               /\ \A k \in 1..Len(Widgets(layout)) : Widgets(layout')[k] = Widgets(layout)[k]
               /\ \A k \in 1..Len(Widgets(layout')) : Widgets(layout')[k] # Placeholder]_vars

\* three files added, two of them the same file, in the order added
C1_Witness ==
    /\ event.name = "add_pdf" /\ event.rendered
    /\ get_pdf_paths(layout) = <<"a.pdf", "b.pdf", "a.pdf">>

\* C2: a drop of the thumbnail in the cell of linear index i onto the cell
\* of linear index j, both below the number of thumbnails, exchanges the
\* positions i and j of the sequence and leaves every other position alone.
C2_DropSwapsCells ==
    [][(event'.name = "dropEvent" /\ drag.active)
        => \A i, j \in 0..(Len(Widgets(layout)) - 1) :
             ((\E k \in 1..count(layout) :
                  /\ layout.items[k].w # Placeholder
                  /\ pos(layout, layout.items[k]) = drag.source
                  /\ LinearIndex(layout.items[k]) = i)
              /\ InCellOfIndex(drag.pointer, j))
             => Widgets(layout') = Exchanged(Widgets(layout), i + 1, j + 1)]_vars

\* C3: the placeholder's linear index is the number of thumbnails.
C3_PlaceholderAtCount ==
    LinearIndex(PlaceholderItem(layout)) = Len(Widgets(layout))

\* C4: delete_self of a thumbnail leaves get_pdf_paths and the thumbnails as
\* they were with that one thumbnail taken out: the others keep their order,
\* none is lost and none appears twice.
C4_RemoveKeepsOrder ==
    [][event'.name = "delete_self"
        => \E k \in 1..Len(Widgets(layout)) :
             /\ Widgets(layout)[k] = event'.widget
             /\ Widgets(layout') = Without(Widgets(layout), k)
             /\ get_pdf_paths(layout') = Without(get_pdf_paths(layout), k)]_vars

\* a thumbnail that was not the last one is gone, two are left
C4_Witness ==
    /\ event.name = "delete_self"
    /\ Len(Widgets(layout)) = 2
    /\ LinearIndex(items_of(layout)[2]) = 2
    /\ get_pdf_paths(layout) = <<"a.pdf", "b.pdf">>

C6_RemoveReflows ==
    event.name = "delete_self"
        => \A k \in 1..Len(items_of(layout)) :
             <<items_of(layout)[k].row, items_of(layout)[k].col>> = divmod(k - 1)

\* C7: right after clear_all_pdfs get_pdf_paths is empty and the placeholder
\* is in the layout, in the cell (0, 0).
C7_ClearResets ==
    event.name = "clear_all_pdfs"
        => /\ get_pdf_paths(layout) = <<>>
           /\ InLayout(layout, Placeholder)
           /\ PlaceholderItem(layout).row = 0
           /\ PlaceholderItem(layout).col = 0

\* C8: the thumbnails' order in the layout is the row-major order of the
\* cells they occupy: going through get_pdf_paths, the linear index of the
\* cell grows from each thumbnail to the next.
C8_LayoutOrderIsRowMajor ==
    \A k \in 1..(Len(items_of(layout)) - 1) :
        LinearIndex(items_of(layout)[k]) < LinearIndex(items_of(layout)[k + 1])

\* a drop has exchanged the first and the last of three thumbnails
C8_Witness ==
    /\ event.name = "dropEvent" /\ ~event.raised
    /\ Widgets(layout) = <<3, 2, 1>>

RECURSIVE PagesOf(_)
\* the page sequences of the files of a list, one after the other
PagesOf(files) ==
    IF files = <<>> THEN <<>> ELSE Pages(Head(files)) \o PagesOf(Tail(files))

\* C9: whenever a merge succeeds, the destination holds the pages of the
\* files of the grid, in list order, and nothing else (nothing appended by
\* an earlier merge call), and the accumulator is released.
C9_MergeWritesConcatenation ==
    (event.name = "merge_pdfs" /\ event.called /\ event.success)
        => /\ normalize(output_filename) \in DOMAIN disk
           /\ disk[normalize(output_filename)] = PagesOf(get_pdf_paths(layout))
           /\ merger.pages = <<>>

\* C10: a merge call that reaches the collaborator raises nothing; it
\* returns failure, with the collaborator's message, when a source cannot
\* be read or the destination cannot be written, and success otherwise;
\* the error dialog goes with failure and the folder is opened on success
\* only.
C10_MergeReportsOutcome ==
    (event.name = "merge_pdfs" /\ event.called)
        => LET files == get_pdf_paths(layout)
               bad == \E k \in 1..Len(files) : files[k] \in event.unreadable
           IN  /\ ~event.raised
               /\ (bad \/ ~event.writable)
                    => /\ ~event.success
                       /\ event.message[1] \in {"cannot read", "cannot write"}
               /\ ~(bad \/ ~event.writable) => event.success
               /\ event.success => (event.dialog = "information" /\ event.folder_opened)
               /\ ~event.success => (event.dialog = "critical" /\ ~event.folder_opened)

\* C11: Merge pressed with no thumbnail in the grid, or with an empty output
\* name, ends in a warning: the collaborator is not called, nothing is
\* written, and the grid, the output-name field and the accumulator are as
\* they were.
C11_MergeAbortsOnMissingInput ==
    [][(event'.name = "merge_pdfs"
        /\ (get_pdf_paths(layout) = <<>> \/ output_filename = <<>>))
        => /\ ~event'.called
           /\ event'.dialog = (IF get_pdf_paths(layout) = <<>>
                               THEN "warning: No PDF files selected."
                               ELSE "warning: Output file name not specified.")
           /\ ~event'.folder_opened
           /\ disk' = disk
           /\ merger' = merger
           /\ layout' = layout
           /\ output_filename' = output_filename]_vars

\* the empty name is refused while the accumulator still holds the pages of
\* a merge that failed before
C11_Witness ==
    /\ event.name = "merge_pdfs" /\ ~event.called
    /\ event.dialog = "warning: Output file name not specified."
    /\ get_pdf_paths(layout) # <<>>
    /\ merger.pages # <<>>
    /\ disk = <<>>

\* the files of a selection whose thumbnail renders, in selection order
RenderedOf(files) ==
    LET renders(f) == f \in Renderable
    IN  SelectSeq(files, renders)

\* C12: a file whose thumbnail cannot be made is skipped: add_pdf of such a
\* file leaves the layout (sequence and placeholder cell) as it was, and a
\* selection of several files adds the files that render, in selection
\* order, after the thumbnails already there.
C12_FailedThumbnailIsSkipped ==
    [][/\ (event'.name = "add_pdf" /\ ~event'.rendered) => layout' = layout
       /\ event'.name = "select_files"
            => /\ get_pdf_paths(layout')
                    = get_pdf_paths(layout) \o RenderedOf(event'.files)
               /\ RenderedOf(event'.files) = <<>> => layout' = layout]_vars

\* the file after the one that failed is in the grid
C12_Witness ==
    /\ event.name = "select_files"
    /\ event.files = <<"bad.pdf", "b.pdf">>
    /\ get_pdf_paths(layout) = <<"a.pdf", "b.pdf">>

\* the n-th name of Merged_Output.pdf, Merged_Output_001.pdf, ... (n < 1000)
AutoName(n) ==
    IF n = 0 THEN <<"Merged_Output", ".", "p", "d", "f">>
    ELSE <<"Merged_Output", "_",
           DigitChars[((n \div 100) % 10) + 1],
           DigitChars[((n \div 10) % 10) + 1],
           DigitChars[(n % 10) + 1],
           ".", "p", "d", "f">>

\* C13: the name generate_output_filename gives (here: put into the field
\* when auto-naming is switched on) is the first of Merged_Output.pdf,
\* Merged_Output_001.pdf, ... that is not on disk; with Merged_Output.pdf
\* and Merged_Output_001.pdf there it is Merged_Output_002.pdf.
C13_FirstFreeAutoName ==
    (event.name = "toggle_auto_name" /\ auto_name_enabled)
        => /\ \E n \in 0..Cardinality(DOMAIN disk) :
                /\ output_filename = AutoName(n)
                /\ AutoName(n) \notin DOMAIN disk
                /\ \A m \in 0..(n - 1) : AutoName(m) \in DOMAIN disk
           /\ (AutoName(0) \in DOMAIN disk /\ AutoName(1) \in DOMAIN disk
               /\ AutoName(2) \notin DOMAIN disk)
                => output_filename = <<"Merged_Output", "_", "0", "0", "2", ".", "p", "d", "f">>

\* Merged_Output.pdf and Merged_Output_001.pdf exist, _002 is generated
C13_Witness ==
    /\ event.name = "toggle_auto_name" /\ auto_name_enabled
    /\ DOMAIN disk = {AutoName(0), AutoName(1)}
    /\ output_filename = AutoName(2)

\* C18: with auto-naming on, the destination of a merge is not on disk when
\* the merge starts.
C18_AutoNameIsFreeAtMerge ==
    [][(event'.name = "merge_pdfs" /\ event'.called /\ auto_name_enabled)
        => event'.output_file \notin DOMAIN disk]_vars

\* C14: the destination handed to the merge is the name typed with ".pdf"
\* appended exactly when the name does not end with ".pdf" already: "r"
\* gives "r.pdf", "r.pdf" stays, and normalising the result again changes
\* nothing.
C14_PdfSuffixOnce ==
    (event.name = "merge_pdfs" /\ event.called)
        => LET t == output_filename
               n == Len(t)
               ends == /\ n >= 4
                       /\ t[n - 3] = "." /\ t[n - 2] = "p" /\ t[n - 1] = "d" /\ t[n] = "f"
           IN  /\ ends => event.output_file = t
               /\ ~ends => event.output_file = t \o <<".", "p", "d", "f">>
               /\ t = <<"r">> => event.output_file = <<"r", ".", "p", "d", "f">>
               /\ t = <<"r", ".", "p", "d", "f">> => event.output_file = t
               /\ normalize(event.output_file) = event.output_file

\* "r.pdf" typed and handed on as it is
C14_Witness ==
    /\ event.name = "merge_pdfs" /\ event.called
    /\ output_filename = <<"r", ".", "p", "d", "f">>
    /\ event.output_file = <<"r", ".", "p", "d", "f">>

\* C15: every drop ends without an exception and leaves a permutation of
\* the thumbnails that were there.
C15_DropNeverRaises ==
    [][event'.name = "dropEvent"
        => /\ ~event'.raised
           /\ Len(Widgets(layout')) = Len(Widgets(layout))
           /\ {Widgets(layout')[k] : k \in 1..Len(Widgets(layout'))}
                = {Widgets(layout)[k] : k \in 1..Len(Widgets(layout))}]_vars

\* C16: a merge call with every source readable and the destination
\* writable succeeds, whatever merge calls came before it.
C16_MergerStaysUsable ==
    (/\ event.name = "merge_pdfs" /\ event.called
     /\ event.writable
     /\ \A k \in 1..Len(get_pdf_paths(layout)) :
            get_pdf_paths(layout)[k] \notin event.unreadable)
        => event.success

\* C17: the widgets of the grid are in pairwise distinct cells; while a
\* drag is on, exactly one widget is at the position of the payload, the
\* thumbnail dragged; and the widget a drop finds is that thumbnail.
C17_PayloadIdentifiesDragged ==
    /\ \A i, j \in 1..count(layout) :
          i # j => <<layout.items[i].row, layout.items[i].col>>
                     # <<layout.items[j].row, layout.items[j].col>>
    /\ drag.active
         => /\ drag.widget # Placeholder
            /\ {layout.items[i].w : i \in {i \in 1..count(layout) :
                    pos(layout, layout.items[i]) = drag.source}} = {drag.widget}
    /\ event.name = "dropEvent"
         => (event.found = event.dragged /\ event.found # Placeholder)

\* after a removal left a gap, the second of the two thumbnails left was
\* dragged, found and moved to the front
C17_Witness ==
    /\ event.name = "dropEvent" /\ ~event.raised
    /\ event.dragged = 3 /\ event.found = 3
    /\ Widgets(layout) = <<3, 2>>

====
